---------------------------- MODULE Spec2Model ----------------------------
(* One-file-per-connection TCP transfer: client.py (sender) streams      *)
(* header + filename + payload, server.py (receiver) parses the frame    *)
(* and saves the payload.  Bytes are integers 0..255, byte strings and   *)
(* text strings are sequences (of bytes, of code points).                *)
EXTENDS Integers, Sequences, FiniteSets, TLC

(* ------------------------------ bounds ------------------------------ *)
\* the 4096-byte chunk of client.py:49 and server.py:70, scaled down so that
\* payloads below, equal to and above one chunk are all explored
CHUNK == 2
\* longest source file, in bytes: one byte more than a chunk
MaxLen == CHUNK + 1
\* number of receiver runs (each run serves one connection)
MaxRuns == 2

(* ----------------------- helpers on sequences ----------------------- *)
Min(a, b) == IF a <= b THEN a ELSE b

Range(s) == { s[i] : i \in 1..Len(s) }

Take(s, k) == SubSeq(s, 1, Min(k, Len(s)))

Drop(s, k) == SubSeq(s, k + 1, Len(s))

(* ------------------------- struct "!BHQ" ---------------------------- *)
\* widths in bytes of the fields B, H, Q in network order, no padding
header_fmt == <<1, 2, 8>>

\* struct.calcsize(header_fmt)
header_size == header_fmt[1] + header_fmt[2] + header_fmt[3]

\* largest value of the H field
MaxH == 65535

\* largest value of the B field
MaxB == 255

RECURSIVE LittleEndian(_, _)
\* the bug of packing in the other byte order
LittleEndian(v, w) == IF w = 0 THEN <<>>
                      ELSE <<v % 256>> \o LittleEndian(v \div 256, w - 1)

RECURSIVE BigEndian(_, _)
\* the w low-order base-256 digits of v, most significant first
BigEndian(v, w) == IF w = 0 THEN <<>>
                   ELSE BigEndian(v \div 256, w - 1) \o <<v % 256>>

RECURSIVE FromBigEndian(_)
\* the unsigned integer whose big-endian digits are b
FromBigEndian(b) == IF b = <<>> THEN 0
                    ELSE FromBigEndian(SubSeq(b, 1, Len(b) - 1)) * 256 + b[Len(b)]

\* the bug of a length that is masked to its field instead of checked
PackFits_Masked(opcode, name_len, file_size) ==
    /\ opcode \in 0..MaxB
    /\ file_size >= 0

\* struct.pack raises struct.error unless every field fits its width; every
\* size of the model lies below the Q limit 2^64 - 1, so only its sign is tested
PackFits(opcode, name_len, file_size) ==
    /\ opcode \in 0..MaxB
    /\ name_len \in 0..MaxH
    /\ file_size >= 0

\* struct.pack(header_fmt, opcode, name_len, file_size)
Pack(opcode, name_len, file_size) ==
    BigEndian(opcode, header_fmt[1]) \o BigEndian(name_len, header_fmt[2])
        \o BigEndian(file_size, header_fmt[3])

\* struct.unpack(header_fmt, header_data), for Len(header_data) = header_size
Unpack(header_data) ==
    [opcode    |-> FromBigEndian(SubSeq(header_data, 1, header_fmt[1])),
     name_len  |-> FromBigEndian(SubSeq(header_data, header_fmt[1] + 1,
                                        header_fmt[1] + header_fmt[2])),
     file_size |-> FromBigEndian(SubSeq(header_data, header_fmt[1] + header_fmt[2] + 1,
                                        header_size))]

(* ------------------------------ UTF-8 ------------------------------- *)
\* code points below 2048 take one or two bytes; the model uses no others
\* the bytes of one code point
Utf8Char(c) == IF c < 128 THEN <<c>> ELSE <<192 + (c \div 64), 128 + (c % 64)>>

RECURSIVE Utf8Encode(_)
\* str.encode("utf-8"): the bytes of the code points, in order (split in halves
\* so that long strings do not nest deeply)
Utf8Encode(s) ==
    IF s = <<>> THEN <<>>
    ELSE IF Len(s) = 1 THEN Utf8Char(s[1])
    ELSE Utf8Encode(SubSeq(s, 1, Len(s) \div 2))
             \o Utf8Encode(SubSeq(s, Len(s) \div 2 + 1, Len(s)))

IsCont(b) == b \in 128..191

RECURSIVE Utf8Valid(_)
\* bytes.decode("utf-8") raises UnicodeDecodeError unless this holds
Utf8Valid(b) ==
    IF b = <<>> THEN TRUE
    ELSE IF b[1] < 128 THEN Utf8Valid(Tail(b))
    ELSE IF b[1] \in 194..223 /\ Len(b) >= 2 /\ IsCont(b[2])
         THEN Utf8Valid(Tail(Tail(b)))
    ELSE FALSE

RECURSIVE Utf8Decode(_)
Utf8Decode(b) ==
    IF b = <<>> THEN <<>>
    ELSE IF b[1] < 128 THEN <<b[1]>> \o Utf8Decode(Tail(b))
    ELSE <<(b[1] - 192) * 64 + (b[2] - 128)>> \o Utf8Decode(Tail(Tail(b)))

(* ----------------------------- os.path ------------------------------ *)
Sep == 47

RECURSIVE LastSep(_, _, _)
\* the index of the last separator among p[lo..hi], 0 when there is none
LastSep(p, lo, hi) ==
    IF lo > hi THEN 0
    ELSE IF lo = hi THEN (IF p[lo] = Sep THEN lo ELSE 0)
    ELSE LET mid == (lo + hi) \div 2
             r   == LastSep(p, mid + 1, hi)
         IN  IF r # 0 THEN r ELSE LastSep(p, lo, mid)

\* the bug of sending the path as given, directories included
Basename_Whole(p) == p

\* os.path.basename: what follows the last separator
Basename(p) == SubSeq(p, LastSep(p, 1, Len(p)) + 1, Len(p))

(* ------------------------------ inputs ------------------------------ *)
\* first bytes of the source files; byte i of a file is its first byte + i - 1,
\* so a lost, repeated or misplaced byte changes the content
FirstBytes == {65, 81}

Contents == { [i \in 1..len |-> b + i - 1] : len \in 0..MaxLen, b \in FirstBytes }

\* the sender's file: absent, a regular file without read permission, or readable
SrcFiles == { [state |-> "missing", data |-> <<>>],
              [state |-> "noperm", data |-> <<65>>] }
            \cup [state : {"ok"}, data : Contents]

\* the file paths given to the sender, by name: "a", "d/a", and a basename one
\* byte longer than the H field can declare
ShortPaths == {"a", "d/a"}

RECURSIVE Repeat(_, _)
\* n copies of the code point c
Repeat(c, n) == IF n = 0 THEN <<>>
                ELSE IF n = 1 THEN <<c>>
                ELSE Repeat(c, n \div 2) \o Repeat(c, n - n \div 2)

LongName == Repeat(97, MaxH + 1)

\* the code points of the path named by argv[3]
PathOf(arg) == CASE arg = "a"    -> <<97>>
                 [] arg = "d/a"  -> <<100, Sep, 97>>
                 [] arg = "long" -> LongName
                 [] OTHER        -> <<>>

ClientInputs == [peer : {"client"}, file_path : ShortPaths, src : SrcFiles, plan : {<<>>}]
                \cup {[peer |-> "client", file_path |-> "long",
                       src |-> [state |-> "ok", data |-> <<65>>], plan |-> <<>>]}

\* frames a peer other than client.py may put on the wire: header fields, then
\* the bytes that follow the header
RawFrames == {
    <<<<1, 1, 2>>, <<97, 65, 66>>>>,               \* "a", then AB
    <<<<1, 1, 0>>, <<97>>>>,                       \* "a", empty payload
    <<<<1, 1, 1>>, <<97, 65, 66>>>>,               \* "a", then A, then a stray B
    <<<<1, 4, 1>>, <<46, 46, Sep, 97, 66>>>>,      \* "../a", then B
    <<<<1, 0, 1>>, <<65>>>>,                       \* empty name
    <<<<1, 1, 1>>, <<255, 65>>>>,                  \* a byte that is not UTF-8
    <<<<1, 2, 1>>, <<195, 169, 65>>>>,             \* e-acute in two bytes, then A
    <<<<1, 2, 0>>, <<97, Sep>>>>,                  \* "a/"
    <<<<2, 1, 1>>, <<97, 65>>>>,                   \* opcode 2
    <<<<0, 0, 0>>, <<>>>>,                         \* opcode 0
    <<<<255, 65535, 2147483647>>, <<>>>>,          \* large fields
    <<<<1, 256, 65536>>, <<97>>>> }                \* more name than is sent

\* where a peer may stop: anywhere after the header on every frame, and also
\* anywhere inside the header on the first frame (the receiver does not look
\* at header bytes before it has all of them)
Cuts(f) == IF f[1] = <<1, 1, 2>> THEN 0..(header_size + Len(f[2]))
           ELSE header_size..(header_size + Len(f[2]))

\* the prefixes of the frames at those points
RawPlans == UNION { { Take(Pack(f[1][1], f[1][2], f[1][3]) \o f[2], k) :
                        k \in Cuts(f) } : f \in RawFrames }

RawInputs == [peer : {"raw"}, file_path : {""},
              src : {[state |-> "missing", data |-> <<>>]}, plan : RawPlans]

Inputs == ClientInputs \cup RawInputs

(* ------------------------------ state ------------------------------- *)
VARIABLES
    inp,    \* this run's peer: client.py's argv[3] and source file, or a raw byte plan
    snd,    \* the peer: position and locals of client.py main
    conn,   \* the TCP connection: "none", "pending" (in the backlog), "accepted"
    wire,   \* every byte the peer has written to the connection, in order
    rd,     \* how many bytes of wire the receiver has consumed
    second, \* a later connection attempt by another sender: "none", "pending", "accepted"
    rcv,    \* the receiver: position and locals of server.py main
    fs,     \* the receiver's filesystem: path |-> content
    run     \* index of the receiver run

vars == <<inp, snd, conn, wire, rd, second, rcv, fs, run>>

snd0 == [pc |-> "start", file_size |-> 0, filename |-> <<>>, name_len |-> 0,
         header |-> <<>>, pos |-> 0]

rcv0 == [pc |-> "start", listening |-> FALSE, conn_closed |-> FALSE,
         data |-> <<>>, header_data |-> <<>>,
         opcode |-> 0, name_len |-> 0, file_size |-> 0,
         filename_bytes |-> <<>>, filename |-> <<>>, warned |-> FALSE,
         remaining |-> 0, error |-> ""]

Init == /\ inp \in Inputs
        /\ snd = snd0
        /\ conn = "none"
        /\ wire = <<>>
        /\ rd = 0
        /\ second = "none"
        /\ rcv = rcv0
        /\ fs = <<>>
        /\ run = 1

SndFailed == {"exit_nofile", "err_connect", "err_pack", "err_open"}

SndTerminal == SndFailed \cup {"done", "raw_closed"}

RcvErrors == {"err_header", "err_name", "err_decode", "err_open", "err_payload"}

RcvTerminal == RcvErrors \cup {"returned", "done"}

\* the bug of a receive that gives up when nothing has arrived yet
PeerClosed_NoWait == conn # "none"

\* the peer's end of the connection is shut: explicit close, or process exit
PeerClosed == /\ conn # "none"
              /\ snd.pc \in {"done", "raw_closed", "err_pack", "err_open"}

\* bytes written by the peer and not yet consumed by the receiver
Avail == Len(wire) - rd

(* ------------------------- client.py main --------------------------- *)
IsClient == inp.peer = "client"

\* os.path.isfile(file_path)
IsFile(src) == src.state # "missing"

\* line 16-18: the existence check, before any socket is created
CheckFile ==
    /\ IsClient /\ snd.pc = "start"
    /\ snd' = [snd EXCEPT !.pc = IF IsFile(inp.src) THEN "connect" ELSE "exit_nofile"]
    /\ UNCHANGED <<inp, conn, wire, rd, second, rcv, fs, run>>

\* line 21-27: gethostbyname, socket, connect; refused unless the receiver listens
Connect ==
    /\ IsClient /\ snd.pc = "connect"
    /\ IF rcv.listening /\ conn = "none"
       THEN /\ conn' = "pending"
            /\ snd' = [snd EXCEPT !.pc = "meta"]
       ELSE /\ conn' = conn
            /\ snd' = [snd EXCEPT !.pc = "err_connect"]
    /\ UNCHANGED <<inp, wire, rd, second, rcv, fs, run>>

\* line 31-38: size, encoded basename, its length, and the packed header
Prepare ==
    /\ IsClient /\ snd.pc = "meta"
    /\ LET file_size == Len(inp.src.data)
           filename  == Utf8Encode(Basename(PathOf(inp.file_path)))
           name_len  == Len(filename)
           opcode    == 1
       IN  IF PackFits(opcode, name_len, file_size)
           THEN snd' = [snd EXCEPT !.pc = "send_header", !.file_size = file_size,
                                   !.filename = filename, !.name_len = name_len,
                                   !.header = Pack(opcode, name_len, file_size)]
           ELSE snd' = [snd EXCEPT !.pc = "err_pack", !.file_size = file_size,
                                   !.name_len = name_len]
    /\ UNCHANGED <<inp, conn, wire, rd, second, rcv, fs, run>>

\* line 41: sock.sendall(header)
SendHeader ==
    /\ IsClient /\ snd.pc = "send_header"
    /\ wire' = wire \o snd.header
    /\ snd' = [snd EXCEPT !.pc = "send_name"]
    /\ UNCHANGED <<inp, conn, rd, second, rcv, fs, run>>

\* line 42: sock.sendall(filename)
SendName ==
    /\ IsClient /\ snd.pc = "send_name"
    /\ wire' = wire \o snd.filename
    /\ snd' = [snd EXCEPT !.pc = "open"]
    /\ UNCHANGED <<inp, conn, rd, second, rcv, fs, run>>

\* line 47: open(file_path, "rb") raises on a file that cannot be read
OpenSource ==
    /\ IsClient /\ snd.pc = "open"
    /\ snd' = [snd EXCEPT !.pc = IF inp.src.state = "ok" THEN "loop" ELSE "err_open",
                          !.pos = 0]
    /\ UNCHANGED <<inp, conn, wire, rd, second, rcv, fs, run>>

\* the bug of stopping one byte short of the end of the file
ReadChunk_Short(data, pos) == SubSeq(data, pos + 1, Min(pos + CHUNK, Len(data) - 1))

\* f.read(4096): the next chunk of the file, empty at end of file
ReadChunk(data, pos) == SubSeq(data, pos + 1, Min(pos + CHUNK, Len(data)))

\* line 48-52: one iteration of the streaming loop
SendChunk ==
    /\ IsClient /\ snd.pc = "loop"
    /\ LET chunk == ReadChunk(inp.src.data, snd.pos)
       IN  IF chunk = <<>>
           THEN /\ snd' = [snd EXCEPT !.pc = "close"]
                /\ wire' = wire
           ELSE /\ snd' = [snd EXCEPT !.pos = @ + Len(chunk)]
                /\ wire' = wire \o chunk
    /\ UNCHANGED <<inp, conn, rd, second, rcv, fs, run>>

\* line 57: sock.close()
CloseSender ==
    /\ IsClient /\ snd.pc = "close"
    /\ snd' = [snd EXCEPT !.pc = "done"]
    /\ UNCHANGED <<inp, conn, wire, rd, second, rcv, fs, run>>

(* ------------------- a peer that is not client.py -------------------- *)
\* connects and writes its whole plan; the receiver sees it in any fragmentation
RawSend ==
    /\ inp.peer = "raw" /\ snd.pc = "start"
    /\ rcv.listening /\ conn = "none"
    /\ conn' = "pending"
    /\ wire' = inp.plan
    /\ snd' = [snd EXCEPT !.pc = "raw_sent"]
    /\ UNCHANGED <<inp, rd, second, rcv, fs, run>>

\* closes its end; a peer that never takes this step stalls the receiver
RawClose ==
    /\ inp.peer = "raw" /\ snd.pc = "raw_sent"
    /\ snd' = [snd EXCEPT !.pc = "raw_closed"]
    /\ UNCHANGED <<inp, conn, wire, rd, second, rcv, fs, run>>

\* another sender connects while the first transfer is being received: the
\* receiver's process is alive and listens, so the kernel completes the
\* handshake and queues the connection (listen(1))
SecondConnect ==
    /\ second = "none" /\ conn = "accepted"
    /\ rcv.listening /\ rcv.pc \in {"payload", "saved"}
    /\ second' = "pending"
    /\ UNCHANGED <<inp, snd, conn, wire, rd, rcv, fs, run>>

(* ------------------------- server.py main --------------------------- *)
\* line 24-34: socket, setsockopt, bind, listen(1)
Listen ==
    /\ rcv.pc = "start"
    /\ rcv' = [rcv EXCEPT !.pc = "accept", !.listening = TRUE]
    /\ UNCHANGED <<inp, snd, conn, wire, rd, second, fs, run>>

\* line 37: accept() blocks until a connection is pending and takes the oldest
\* one; line 45 then calls recv_exact, which starts with data = b""
Accept ==
    /\ rcv.pc = "accept"
    /\ \/ /\ conn = "pending"
          /\ conn' = "accepted" /\ second' = second
       \/ /\ conn # "pending" /\ second = "pending"
          /\ second' = "accepted" /\ conn' = conn
    /\ rcv' = [rcv EXCEPT !.pc = "recv_header", !.data = <<>>]
    /\ UNCHANGED <<inp, snd, wire, rd, fs, run>>

(* recv_exact(sock, n), server.py:7-14 *)
InRecvExact == rcv.pc \in {"recv_header", "recv_name"}

\* the bug of asking for one filename byte too few
RecvN_NameShort(r) == IF r.pc = "recv_header" THEN header_size ELSE r.name_len - 1

\* the n of the running call: header_size at line 45, name_len at line 57
RecvN(r) == IF r.pc = "recv_header" THEN header_size ELSE r.name_len

\* the bug of trusting a single recv to fill the buffer
RecvMore_Once(data, n) == Len(data) = 0 /\ n > 0

\* line 9: while len(data) < n
RecvMore(data, n) == Len(data) < n

\* the bug of asking for all n bytes on every iteration
RecvArg_Whole(data, n) == n

\* line 10: the argument of sock.recv
RecvArg(data, n) == n - Len(data)

\* line 14: return data, to the assignment at line 45 or at line 57
RecvExactReturned(r) ==
    IF r.pc = "recv_header"
    THEN [r EXCEPT !.pc = "unpack", !.header_data = r.data]
    ELSE [r EXCEPT !.pc = "decode", !.filename_bytes = r.data]

\* line 12: the message of the ConnectionError raised by recv_exact
RecvExactMessage == "Connection closed while receiving data"

\* the bug of leaving the loop on an empty chunk and returning what was read
RecvExactEof_Break(r) == RecvExactReturned(r)

\* line 11-12: an empty chunk raises ConnectionError out of main
RecvExactEof(r) ==
    [r EXCEPT !.pc = IF r.pc = "recv_header" THEN "err_header" ELSE "err_name",
              !.error = RecvExactMessage]

\* line 10, 13: recv hands over between one byte and as many as are asked for
\* and have arrived; it blocks while nothing has arrived and the peer is open
RecvExactChunk ==
    /\ InRecvExact /\ RecvMore(rcv.data, RecvN(rcv))
    /\ \E k \in 1..Min(RecvArg(rcv.data, RecvN(rcv)), Avail) :
         /\ rcv' = [rcv EXCEPT !.data = @ \o SubSeq(wire, rd + 1, rd + k)]
         /\ rd' = rd + k
    /\ UNCHANGED <<inp, snd, conn, wire, second, fs, run>>

\* line 10-12: recv returns b"" once the peer has closed and all is consumed
RecvExactClosed ==
    /\ InRecvExact /\ RecvMore(rcv.data, RecvN(rcv))
    /\ Avail = 0 /\ PeerClosed
    /\ rcv' = RecvExactEof(rcv)
    /\ UNCHANGED <<inp, snd, conn, wire, rd, second, fs, run>>

\* line 9, 14: the loop ends, without a read when n = 0
RecvExactReturn ==
    /\ InRecvExact /\ ~RecvMore(rcv.data, RecvN(rcv))
    /\ rcv' = RecvExactReturned(rcv)
    /\ UNCHANGED <<inp, snd, conn, wire, rd, second, fs, run>>

\* the bug of rejecting only opcode 0
Supported_NonZero(opcode) == opcode # 0

\* line 48: the only opcode served
Supported(opcode) == opcode = 1

\* line 46-57: unpack, then either abort (close both sockets, return) or go on
\* to the filename
DecodeHeader ==
    /\ rcv.pc = "unpack"
    /\ LET h == Unpack(rcv.header_data)
       IN  rcv' = IF Supported(h.opcode)
                  THEN [rcv EXCEPT !.opcode = h.opcode, !.name_len = h.name_len,
                                   !.file_size = h.file_size, !.pc = "recv_name",
                                   !.data = <<>>]
                  ELSE [rcv EXCEPT !.opcode = h.opcode, !.name_len = h.name_len,
                                   !.file_size = h.file_size, !.pc = "returned",
                                   !.conn_closed = TRUE, !.listening = FALSE]
    /\ UNCHANGED <<inp, snd, conn, wire, rd, second, fs, run>>

\* line 58: filename_bytes.decode("utf-8")
DecodeName ==
    /\ rcv.pc = "decode"
    /\ rcv' = IF Utf8Valid(rcv.filename_bytes)
              THEN [rcv EXCEPT !.pc = "open", !.filename = Utf8Decode(rcv.filename_bytes)]
              ELSE [rcv EXCEPT !.pc = "err_decode"]
    /\ UNCHANGED <<inp, snd, conn, wire, rd, second, fs, run>>

\* line 68: the path handed to open
DestPath(filename) == filename

\* open(path, "wb") raises for the empty path and for a path naming a directory
OpenFails(path) == path = <<>> \/ path[Len(path)] = Sep

\* the bug of opening in append mode: an existing file keeps its content
OpenWB_Append(f, path) ==
    [p \in DOMAIN f \cup {path} |-> IF p \in DOMAIN f THEN f[p] ELSE <<>>]

\* open(path, "wb"): the file exists afterwards and is empty
OpenWB(f, path) == [p \in DOMAIN f \cup {path} |-> IF p = path THEN <<>> ELSE f[p]]

\* the bug of keeping only the chunk written last
FWrite_Replace(f, path, chunk) == [f EXCEPT ![path] = chunk]

\* line 74: f.write(chunk) appends to the open file
FWrite(f, path, chunk) == [f EXCEPT ![path] = @ \o chunk]

\* line 61-68: the exists test only prints a warning; remaining = file_size; open
OpenDest ==
    /\ rcv.pc = "open"
    /\ LET path   == DestPath(rcv.filename)
           exists == path \in DOMAIN fs
       IN  IF OpenFails(path)
           THEN /\ rcv' = [rcv EXCEPT !.pc = "err_open", !.warned = exists,
                                      !.remaining = rcv.file_size]
                /\ fs' = fs
           ELSE /\ rcv' = [rcv EXCEPT !.pc = "payload", !.warned = exists,
                                      !.remaining = rcv.file_size]
                /\ fs' = OpenWB(fs, path)
    /\ UNCHANGED <<inp, snd, conn, wire, rd, second, run>>

\* the bug of always asking for a whole chunk
ChunkSize_Fixed(remaining) == CHUNK

\* line 70: chunk_size
ChunkSize(remaining) == IF remaining >= CHUNK THEN CHUNK ELSE remaining

\* the bug of counting a whole request as received
RemainingAfter_Requested(remaining, chunk) == remaining - ChunkSize(remaining)

\* line 75: remaining -= len(chunk)
RemainingAfter(remaining, chunk) == remaining - Len(chunk)

\* line 73: the message of the ConnectionError raised by the payload loop
PayloadMessage == "Connection closed while receiving file data"

\* the bug of leaving the payload loop on an empty chunk
PayloadEof_Break(r) == [r EXCEPT !.pc = "saved"]

\* line 72-73: an empty chunk raises ConnectionError; the with block closes the file
PayloadEof(r) == [r EXCEPT !.pc = "err_payload", !.error = PayloadMessage]

\* line 69-75: one iteration of the payload loop that receives data
PayloadChunk ==
    /\ rcv.pc = "payload" /\ rcv.remaining > 0
    /\ \E k \in 1..Min(ChunkSize(rcv.remaining), Avail) :
         LET chunk == SubSeq(wire, rd + 1, rd + k)
         IN  /\ fs' = FWrite(fs, DestPath(rcv.filename), chunk)
             /\ rcv' = [rcv EXCEPT !.remaining = RemainingAfter(@, chunk)]
             /\ rd' = rd + k
    /\ UNCHANGED <<inp, snd, conn, wire, second, run>>

\* the bug of removing the destination file when the transfer fails
FClose_Remove(f, path) == [p \in DOMAIN f \ {path} |-> f[p]]

\* line 68: leaving the with block closes the file; what was written stays
FClose(f, path) == f

\* line 71-73: the peer closed before file_size bytes arrived; the exception
\* leaves the with block of line 68
PayloadClosed ==
    /\ rcv.pc = "payload" /\ rcv.remaining > 0
    /\ Avail = 0 /\ PeerClosed
    /\ rcv' = PayloadEof(rcv)
    /\ fs' = FClose(fs, DestPath(rcv.filename))
    /\ UNCHANGED <<inp, snd, conn, wire, rd, second, run>>

\* line 69, 77: the loop ends, the file is closed, "Done. Saved to ..." is printed
PayloadDone ==
    /\ rcv.pc = "payload" /\ rcv.remaining <= 0
    /\ rcv' = [rcv EXCEPT !.pc = "saved"]
    /\ UNCHANGED <<inp, snd, conn, wire, rd, second, fs, run>>

\* the bug of serving in a loop: back to accept with the listener open
Served_Loop(r) == [r EXCEPT !.pc = "accept", !.conn_closed = TRUE]

\* line 80-81: conn.close(), listen_sock.close(), and main returns
Served(r) == [r EXCEPT !.pc = "done", !.conn_closed = TRUE, !.listening = FALSE]

\* line 80-81: the end of main after a saved transfer
CloseReceiver ==
    /\ rcv.pc = "saved"
    /\ rcv' = Served(rcv)
    /\ UNCHANGED <<inp, snd, conn, wire, rd, second, fs, run>>

(* ------------------------------- runs ------------------------------- *)
\* both programs have ended; server.py is started again for the next
\* connection, in the same directory
NextRun ==
    /\ run < MaxRuns
    /\ rcv.pc \in RcvTerminal /\ snd.pc \in SndTerminal
    /\ inp' \in Inputs
    /\ snd' = snd0 /\ rcv' = rcv0
    /\ conn' = "none" /\ wire' = <<>> /\ rd' = 0 /\ second' = "none"
    /\ run' = run + 1
    /\ UNCHANGED fs

Next == \/ CheckFile \/ Connect \/ Prepare \/ SendHeader \/ SendName
        \/ OpenSource \/ SendChunk \/ CloseSender
        \/ RawSend \/ RawClose \/ SecondConnect
        \/ Listen \/ Accept
        \/ RecvExactChunk \/ RecvExactClosed \/ RecvExactReturn
        \/ DecodeHeader \/ DecodeName \/ OpenDest
        \/ PayloadChunk \/ PayloadClosed \/ PayloadDone \/ CloseReceiver
        \/ NextRun

Spec == Init /\ [][Next]_vars

\* the steps of the peer and of other senders
PeerNext ==
    \/ CheckFile \/ Connect \/ Prepare \/ SendHeader \/ SendName
    \/ OpenSource \/ SendChunk \/ CloseSender
    \/ RawSend \/ RawClose \/ SecondConnect

\* the steps of server.py
RcvNext ==
    \/ Listen \/ Accept
    \/ RecvExactChunk \/ RecvExactClosed \/ RecvExactReturn
    \/ DecodeHeader \/ DecodeName \/ OpenDest
    \/ PayloadChunk \/ PayloadClosed \/ PayloadDone \/ CloseReceiver

\* the working directory at the start of a run of server.py: empty, or
\* holding a file "a" left by an earlier run
StartDirs == { <<>>, [p \in {<<97>>} |-> <<81, 82>>] }

OneRunInit ==
    /\ inp \in Inputs
    /\ snd = snd0 /\ rcv = rcv0
    /\ conn = "none" /\ wire = <<>> /\ rd = 0 /\ second = "none"
    /\ fs \in StartDirs
    /\ run = 1

\* one run of server.py with one peer, from start to end
OneRun == PeerNext \/ RcvNext

\* server.py is a running process: while it has a step that does not wait for
\* the peer, it takes one.  Nothing is assumed of the peer, which may stop
\* anywhere.
FairSpec == OneRunInit /\ [][OneRun]_vars /\ WF_vars(RcvNext)

TypeOK == /\ rd \in 0..Len(wire)
          /\ run \in 1..MaxRuns
          /\ conn \in {"none", "pending", "accepted"}
          /\ second \in {"none", "pending", "accepted"}

(* ------------------------------ claims ------------------------------ *)
\* where the payload starts on the wire, once the header is decoded
PayloadStart == header_size + rcv.name_len

RcvSaved == rcv.pc \in {"saved", "done"}

\* C1: round trip.  Whenever client.py has run to completion, the receiver has
\* not failed, and once the receiver reports success the file it saved under
\* the basename of the sender's path holds exactly the sender's bytes,
\* whatever the length and however recv fragmented the stream.
C1_RoundTrip ==
    IsClient =>
      /\ snd.pc = "done" => rcv.pc \notin RcvErrors \cup {"returned"}
      /\ RcvSaved =>
           /\ rcv.filename = Basename(PathOf(inp.file_path))
           /\ rcv.filename \in DOMAIN fs
           /\ fs[rcv.filename] = inp.src.data

\* a file longer than one chunk has been sent, received and saved
C1_Witness ==
    /\ IsClient /\ snd.pc = "done" /\ rcv.pc = "done"
    /\ Len(inp.src.data) > CHUNK
    /\ fs[rcv.filename] = inp.src.data

\* C2: recv_exact returns exactly n bytes, the next n bytes of the stream in
\* stream order, for every fragmentation: the header is the first header_size
\* bytes of the wire, the filename the name_len bytes after them, and the
\* buffer never grows beyond n.
C2_RecvExactExact ==
    /\ InRecvExact => Len(rcv.data) <= RecvN(rcv)
    /\ rcv.pc = "unpack" =>
         /\ Len(rcv.header_data) = header_size
         /\ rcv.header_data = SubSeq(wire, 1, header_size)
         /\ rd = header_size
    /\ rcv.pc = "decode" =>
         /\ Len(rcv.filename_bytes) = rcv.name_len
         /\ rcv.filename_bytes = SubSeq(wire, header_size + 1, PayloadStart)
         /\ rd = PayloadStart

\* a four-byte filename has been returned while more bytes follow on the wire
C2_Witness ==
    /\ rcv.pc = "decode" /\ rcv.name_len = 4
    /\ rcv.filename_bytes = <<46, 46, Sep, 97>>
    /\ Avail > 0

\* recv reports end of data inside recv_exact
RecvExactSeesEof ==
    /\ InRecvExact /\ Len(rcv.data) < RecvN(rcv)
    /\ Avail = 0 /\ PeerClosed

RcvBeforeHeader == {"start", "accept", "recv_header", "err_header"}

RcvAfterName == {"decode", "err_decode", "open", "err_open",
                 "payload", "err_payload", "saved", "done"}

\* C3: when the stream ends before n bytes have arrived, recv_exact raises the
\* connection error and hands no partial buffer to its caller, in the header
\* phase (n = header_size) and in the filename phase (n = name_len); it raises
\* in no other case.
C3_ClosedEarly ==
    /\ [](/\ (PeerClosed /\ Len(wire) < header_size) =>
               (rcv.pc \in RcvBeforeHeader /\ rcv.header_data = <<>>)
          /\ (PeerClosed /\ rcv.pc \in RcvAfterName \cup {"recv_name", "err_name"}
                /\ Len(wire) < PayloadStart) =>
               (rcv.pc \in {"recv_name", "err_name"} /\ rcv.filename_bytes = <<>>)
          /\ rcv.pc = "err_header" =>
               (PeerClosed /\ Len(wire) < header_size /\ rcv.header_data = <<>>)
          /\ rcv.pc = "err_name" =>
               (PeerClosed /\ Len(wire) < PayloadStart /\ rcv.filename_bytes = <<>>))
    /\ [][(RecvExactSeesEof /\ rcv' # rcv) =>
            rcv'.pc = (IF rcv.pc = "recv_header" THEN "err_header" ELSE "err_name")]_vars

\* the stream ended inside the filename, after part of it had been collected
C3_Witness ==
    /\ rcv.pc = "err_name" /\ PeerClosed
    /\ Len(rcv.data) > 0 /\ Len(rcv.data) < rcv.name_len

RcvInPayload == {"payload", "err_payload", "saved", "done"}

\* C4: when the stream closes before file_size payload bytes have been
\* delivered, the payload loop raises the connection error and the receiver
\* never reports success; success is reported only after exactly file_size
\* payload bytes have been consumed.
C4_PayloadClosedEarly ==
    /\ [](/\ (PeerClosed /\ rcv.pc \in RcvInPayload
                /\ Len(wire) < PayloadStart + rcv.file_size) =>
               rcv.pc \in {"payload", "err_payload"}
          /\ rcv.pc = "err_payload" =>
               (PeerClosed /\ Len(wire) < PayloadStart + rcv.file_size)
          /\ RcvSaved => rd = PayloadStart + rcv.file_size)
    /\ [][(rcv.pc = "payload" /\ rcv.remaining > 0 /\ Avail = 0 /\ PeerClosed
             /\ rcv' # rcv) =>
            rcv'.pc = "err_payload"]_vars

\* the stream closed after one of two declared payload bytes
C4_Witness ==
    /\ rcv.pc = "err_payload" /\ PeerClosed
    /\ rcv.file_size = 2 /\ rd = PayloadStart + 1

\* C5: the path opened for writing is the basename of the filename received
\* on the wire and contains no directory separator.
C5_BasenameOnly ==
    rcv.pc \in RcvInPayload =>
      /\ DestPath(rcv.filename) = Basename(rcv.filename)
      /\ Sep \notin Range(DestPath(rcv.filename))

\* the header has been decoded (line 46 has run)
HeaderDecoded == Len(rcv.header_data) = header_size /\ rcv.pc # "unpack"

\* C6: a header whose opcode is not 1 makes the receiver abort right after
\* decoding it: nothing beyond the header_size header bytes is read, both
\* sockets are closed, and the receiver returns without reporting success.
C6_UnsupportedOpcode ==
    /\ (HeaderDecoded /\ Unpack(rcv.header_data).opcode # 1) =>
         /\ rcv.pc = "returned"
         /\ rd = header_size
         /\ rcv.conn_closed /\ ~rcv.listening
         /\ rcv.filename_bytes = <<>> /\ rcv.filename = <<>>
    /\ rcv.pc = "returned" => rcv.opcode # 1

\* opcode 2 was refused while filename and payload bytes wait unread
C6_Witness ==
    /\ rcv.pc = "returned" /\ rcv.opcode = 2
    /\ rd = header_size /\ Avail = 2

\* the payload bytes of this connection that the receiver has consumed
PayloadRead == SubSeq(wire, PayloadStart + 1, rd)

HeaderSamples == {0, 1, 2, 255} \X {0, 1, 2, 4, 255, 256, 65535}
                   \X {0, 1, 2, 3, 255, 256, 65535, 65536, 2147483647}

C9_UnreadableBeforeNetwork ==
    (IsClient /\ inp.src.state # "ok") => (conn = "none" /\ wire = <<>>)

\* C10: when the basename is longer than the H field allows, the sender fails
\* in struct.pack and has written nothing to the stream.
C10_NameTooLong ==
    /\ (IsClient /\ snd.name_len > MaxH) => (snd.pc = "err_pack" /\ wire = <<>>)
    /\ (IsClient /\ inp.file_path = "long") =>
         snd.pc \in {"start", "connect", "err_connect", "meta", "err_pack"}
    /\ snd.pc = "err_pack" => snd.name_len > MaxH

\* the sender is connected and failed on a 65536-byte basename
C10_Witness ==
    /\ IsClient /\ snd.pc = "err_pack" /\ snd.name_len = MaxH + 1
    /\ conn # "none" /\ wire = <<>>

\* the sender has written everything it is going to write
SndWroteAll == IsClient /\ snd.pc \in {"close", "done"}

\* C11: for every transfer the sender completes, the name_len declared in the
\* header is the number of filename bytes written right after the header, and
\* the declared file_size is the number of payload bytes written after the
\* filename, which are the bytes of the file.
C11_DeclaredLengths ==
    SndWroteAll =>
      LET h == Unpack(SubSeq(wire, 1, header_size))
      IN  /\ Len(wire) >= header_size
          /\ h.name_len = Len(snd.filename)
          /\ SubSeq(wire, header_size + 1, header_size + h.name_len) = snd.filename
          /\ h.file_size = Len(wire) - header_size - h.name_len
          /\ Drop(wire, header_size + h.name_len) = inp.src.data

\* a file of more than one chunk, under a path with a directory, was sent whole
C11_Witness ==
    /\ SndWroteAll /\ snd.pc = "done" /\ inp.file_path = "d/a"
    /\ Len(inp.src.data) = MaxLen


\* the phases in which the receiver reads the stream, and the state in which a
\* closed stream leaves it
Phases == {"header", "filename", "payload"}

FailedIn(phase) ==
    CASE phase = "header"   -> rcv.pc = "err_header"
      [] phase = "filename" -> rcv.pc = "err_name"
      [] phase = "payload"  -> rcv.pc = "err_payload"

\* the failure the receiver surfaces when the stream closes in a phase
MessageIn(phase) ==
    CASE phase = "header"   -> RecvExactEof([rcv EXCEPT !.pc = "recv_header"]).error
      [] phase = "filename" -> RecvExactEof([rcv EXCEPT !.pc = "recv_name"]).error
      [] phase = "payload"  -> PayloadEof(rcv).error

\* C12: when the receiver fails because the stream closed early, the failure
\* it surfaces tells the phase: it is not the failure surfaced for a closure in
\* either of the other two phases.
C12_PhaseIdentified ==
    \A p \in Phases :
      FailedIn(p) =>
        /\ rcv.error = MessageIn(p)
        /\ \A q \in Phases \ {p} : rcv.error # MessageIn(q)


\* C13: in every state in which the receiver's run has ended (success,
\* unsupported opcode, or an error raised in the header, filename or payload
\* phase) the receiver has executed the close of the accepted connection.
C13_ClosedOnEveryEnd ==
    (rcv.pc \in RcvTerminal /\ conn = "accepted") => rcv.conn_closed


\* C14: single shot.  Within one run the receiver accepts one connection and
\* no other: a second sender that connects is never accepted, and once the
\* receiver's run has ended it takes no further step, so it accepts nothing
\* and reads no further byte of any stream.
C14_SingleShot ==
    /\ [](second # "accepted")
    /\ [][run' = run =>
            /\ conn = "accepted" => (conn' = "accepted" /\ second' # "accepted")
            /\ rcv.pc \in RcvTerminal => (rcv' = rcv /\ rd' = rd /\ conn' = conn)]_vars

\* the receiver has saved a transfer and ended while a second sender waits in
\* the backlog, and bytes that followed the first transfer were left unread
C14_Witness ==
    /\ rcv.pc = "done" /\ second = "pending"
    /\ rd < Len(wire)


\* what the sender has put on the stream at each point of client.py
SndExpected ==
    LET meta == snd.header \o snd.filename
    IN  CASE snd.pc = "send_name"                -> snd.header
          [] snd.pc \in {"open", "err_open"}     -> meta
          [] snd.pc = "loop"                     -> meta \o Take(inp.src.data, snd.pos)
          [] snd.pc \in {"close", "done"}        -> meta \o inp.src.data
          [] OTHER                               -> <<>>

\* the bytes of the last component of the sender's path
IsLastComponent(name, path) ==
    /\ Sep \notin Range(name)
    /\ Len(name) <= Len(path)
    /\ Drop(path, Len(path) - Len(name)) = name
    /\ Len(name) < Len(path) => path[Len(path) - Len(name)] = Sep

\* C15: the sender writes, in this order and with nothing in between, the 11
\* header bytes, the bytes of the basename of its path (directories stripped),
\* and the file's bytes in file order in chunks of at most the chunk size; it
\* closes only after the last chunk was written, and it reads nothing from
\* the stream.
C15_SenderOrder ==
    /\ [](IsClient =>
            /\ wire = SndExpected
            /\ snd.pc \in {"send_name", "open", "loop", "close", "done", "err_open"} =>
                 /\ Len(snd.header) = header_size /\ snd.header[1] = 1
                 /\ IsLastComponent(snd.filename, PathOf(inp.file_path))
            /\ snd.pc = "done" =>
                 Len(wire) = header_size + Len(snd.filename) + Len(inp.src.data))
    /\ [][(IsClient /\ run' = run) =>
            /\ Take(wire', Len(wire)) = wire
            /\ snd.pc = "loop" => Len(wire') - Len(wire) <= CHUNK
            /\ (snd.pc = "loop" /\ snd'.pc = "loop" /\ snd' # snd) =>
                 Len(wire') > Len(wire)
            /\ snd' # snd => (rd' = rd /\ rcv' = rcv)]_vars

\* the second chunk of a file under a directory has been written, and the
\* sender has not closed
C15_Witness ==
    /\ IsClient /\ snd.pc = "loop" /\ snd.pos = MaxLen
    /\ inp.file_path = "d/a" /\ Len(wire) = header_size + 1 + MaxLen


\* the bytes of the destination file, empty when it does not exist
Written == IF DestPath(rcv.filename) \in DOMAIN fs THEN fs[DestPath(rcv.filename)] ELSE <<>>

\* C16: in every state of the payload loop 0 <= remaining <= file_size and
\* bytes written + remaining = file_size; the file holds the payload bytes
\* consumed so far, none beyond file_size; every read asks for at most
\* min(chunk size, remaining) bytes and its chunk is written before the next
\* read.
C16_PayloadAccounting ==
    /\ [](rcv.pc \in RcvInPayload =>
            /\ rcv.remaining >= 0 /\ rcv.remaining <= rcv.file_size
            /\ DestPath(rcv.filename) \in DOMAIN fs
            /\ Len(Written) + rcv.remaining = rcv.file_size
            /\ rd = PayloadStart + Len(Written)
            /\ rd <= PayloadStart + rcv.file_size
            /\ Written = PayloadRead)
    /\ [][(rcv.pc = "payload" /\ rd' # rd /\ run' = run) =>
            /\ rd' > rd
            /\ rd' - rd <= Min(CHUNK, rcv.remaining)
            /\ fs' = [fs EXCEPT ![DestPath(rcv.filename)] = @ \o SubSeq(wire, rd + 1, rd')]
            /\ rcv'.remaining = rcv.remaining - (rd' - rd)]_vars

\* the declared payload has been saved and a byte that followed it on the
\* stream was not consumed
C16_Witness ==
    /\ rcv.pc = "saved" /\ rcv.file_size = 1 /\ rcv.remaining = 0
    /\ Avail = 1


\* C17: when the stream closes in the payload phase after k < file_size
\* payload bytes, the destination file exists and holds exactly those k bytes,
\* the first k bytes of the payload, and the failed receiver leaves it so.
C17_PartialFileKept ==
    /\ [](rcv.pc = "err_payload" =>
            /\ DestPath(rcv.filename) \in DOMAIN fs
            /\ Len(Written) < rcv.file_size
            /\ Written = SubSeq(wire, PayloadStart + 1, Len(wire))
            /\ rd = Len(wire))
    /\ [][rcv.pc = "err_payload" => fs' = fs]_vars

\* the stream closed after the first of two declared payload bytes, and the
\* file holds that byte
C17_Witness ==
    /\ rcv.pc = "err_payload" /\ rcv.file_size = 2
    /\ DestPath(rcv.filename) \in DOMAIN fs /\ Written = <<65>>


\* the bytes recv_exact still misses
Missing == RecvN(rcv) - Len(rcv.data)

\* C18: inside recv_exact the collected bytes never exceed n, and every step
\* of the loop either reads, asking for no more than the bytes still missing
\* and strictly increasing the collected bytes, or raises on end of data with
\* bytes missing, or returns with n bytes; so the missing count, at most n at
\* the start, falls with every read and there are at most n reads.  For n = 0
\* the only step is the return of the empty buffer, without a read.
C18_RecvExactProgress ==
    /\ [](InRecvExact => (Missing >= 0 /\ Missing <= RecvN(rcv)))
    /\ [][(InRecvExact /\ rcv' # rcv /\ run' = run) =>
            \/ /\ rcv'.pc = rcv.pc /\ RecvN(rcv') = RecvN(rcv)
               /\ rd' > rd /\ rd' - rd <= Missing
               /\ Len(rcv'.data) = Len(rcv.data) + (rd' - rd)
               /\ Missing' < Missing /\ Missing' >= 0
            \/ /\ rcv'.pc \in {"err_header", "err_name"}
               /\ Missing > 0 /\ rd' = rd /\ Avail = 0
            \/ /\ rcv'.pc \in {"unpack", "decode"}
               /\ Missing = 0 /\ rd' = rd]_vars
    /\ [][(rcv.pc = "recv_name" /\ rcv.name_len = 0 /\ rcv' # rcv /\ run' = run) =>
            (rcv'.pc = "decode" /\ rcv'.filename_bytes = <<>> /\ rd' = rd)]_vars

\* one header byte is missing and more than one byte has arrived
C18_Witness ==
    /\ rcv.pc = "recv_header" /\ Missing = 1
    /\ Avail > 1


\* the receiver waits in a read for bytes that have not arrived, on a
\* connection whose peer has neither closed nor exited
Stalled ==
    /\ conn = "accepted" /\ Avail = 0
    /\ snd.pc \notin SndTerminal
    /\ \/ InRecvExact /\ Missing > 0
       \/ rcv.pc = "payload" /\ rcv.remaining > 0

\* C19: once the sender has written a whole well-formed transfer, the receiver
\* eventually reports success and closes, whether or not the sender ever
\* closes the stream; and while the peer has stalled short of the declared
\* bytes without closing, the receiver stays where it is: it takes no step, so
\* it reports neither success nor failure, however long the stall lasts.
C19_CompletionAndStall ==
    /\ SndWroteAll ~> (rcv.pc = "done" /\ rcv.conn_closed)
    /\ [][Stalled => (rcv' = rcv /\ rd' = rd /\ fs' = fs)]_vars

\* the receiver has reported success and closed while the sender, having
\* written everything, has not closed the stream
C19_Witness ==
    /\ SndWroteAll /\ snd.pc = "close" /\ rcv.pc = "done"
    /\ Len(inp.src.data) = MaxLen


\* the receiver's positions before open(filename, "wb") at line 68 is reached,
\* and the ends reached from them
NoFileYet == {"start", "accept", "recv_header", "unpack", "recv_name", "decode",
              "err_header", "err_name", "err_decode", "returned"}

\* C20: the receiver changes the filesystem only once it holds the full
\* 11-byte header with opcode 1 and the full name_len filename bytes; up to
\* there, and when the stream closes in the header or filename phase or the
\* opcode is not 1, the filesystem is as it was when the run started.
C20_NoFileBeforeMetadata ==
    /\ []((run = 1 /\ rcv.pc \in NoFileYet \cup {"open"}) => fs = <<>>)
    /\ [][/\ rcv'.pc \in NoFileYet => fs' = fs
          /\ fs' # fs =>
               /\ rcv.pc \in {"open", "payload"}
               /\ rcv.header_data = SubSeq(wire, 1, header_size)
               /\ Len(rcv.header_data) = header_size
               /\ rcv.opcode = 1 /\ rcv.header_data[1] = 1
               /\ Len(rcv.filename_bytes) = rcv.name_len
               /\ rcv.filename_bytes = SubSeq(wire, header_size + 1, PayloadStart)
               /\ rd >= PayloadStart]_vars

\* in a directory that holds a file from an earlier run, the stream closed
\* inside the filename
C20_Witness ==
    /\ run = 2 /\ rcv.pc = "err_name" /\ Len(rcv.data) = 1
    /\ <<97>> \in DOMAIN fs /\ fs[<<97>>] = <<65, 66>>

=============================================================================
